---- MODULE Spec2Model ----
(***************************************************************************)
(* Model of the profitability engine of app.py: the memoized calculation   *)
(* engine (run_financial_engine), the filters, and the P&L, mix-weights,   *)
(* PVM and ledger tabs computed by one run of the Streamlit script.        *)
(*                                                                         *)
(* Numbers are exact rationals [n, d] in lowest terms with d > 0; the      *)
(* values a pandas float division by zero produces are kept as d = 0:      *)
(* [n |-> 0, d |-> 0] is NaN, [n |-> 1, d |-> 0] is +inf and               *)
(* [n |-> -1, d |-> 0] is -inf.  Floating-point rounding is not modelled.  *)
(* Strings that the code takes apart (product keys, formatted numbers)     *)
(* are sequences of one-character strings.                                 *)
(***************************************************************************)
EXTENDS Integers, Sequences, FiniteSets, TLC

VARIABLES volTab, priTab, traTab, cache, df_all, sel_year, sel_chan, sel_cat,
          df_f, margin, weights, df_pvm, pvm_locals, wf_y, raw_data_list, rawKey, EAN_Key

vars == <<volTab, priTab, traTab, cache, df_all, sel_year, sel_chan, sel_cat,
          df_f, margin, weights, df_pvm, pvm_locals, wf_y, raw_data_list, rawKey, EAN_Key>>

keyVars == <<rawKey, EAN_Key>>

tableVars == <<volTab, priTab, traTab>>

runVars == <<cache, df_all, sel_year, sel_chan, sel_cat, df_f, margin, weights, df_pvm,
             pvm_locals, wf_y, raw_data_list>>

(***************************************************************************)
(* Bounds of the model.                                                    *)
(***************************************************************************)
MaxKeyLen == 4
MaxVolRows == 1
MaxPriRows == 1
MaxTraRows == 1
BatchVolRows == 2
BatchPriRows == 2
BatchTraRows == 2
BatchTotalRows == 4

(***************************************************************************)
(* Rational arithmetic.                                                    *)
(***************************************************************************)
Abs(i) == IF i < 0 THEN -i ELSE i

Sign(i) == IF i < 0 THEN -1 ELSE IF i > 0 THEN 1 ELSE 0

RECURSIVE Gcd(_, _)
Gcd(a, b) == IF b = 0 THEN a ELSE Gcd(b, a % b)

Rat(n, d) ==
    IF d = 0 THEN [n |-> Sign(n), d |-> 0]
    ELSE LET g == Gcd(Abs(n), Abs(d))
         IN  [n |-> Sign(d) * (n \div g), d |-> Abs(d) \div g]

Zero == Rat(0, 1)

FromInt(i) == Rat(i, 1)

IsFinite(x) == x.d # 0

\* IEEE rules for the non-finite values: anything with NaN is NaN,
\* inf - inf and 0 * inf are NaN.
RAdd(x, y) ==
    IF IsFinite(x) /\ IsFinite(y) THEN Rat(x.n * y.d + y.n * x.d, x.d * y.d)
    ELSE IF IsFinite(x) THEN y
    ELSE IF IsFinite(y) THEN x
    ELSE IF x.n = y.n THEN x ELSE Rat(0, 0)

RNeg(x) == [n |-> -x.n, d |-> x.d]

RSub(x, y) == RAdd(x, RNeg(y))

RMul(x, y) == Rat(x.n * y.n, x.d * y.d)

\* Float division as pandas and numpy do it: x / 0 is NaN for x = 0 and
\* +inf or -inf otherwise; nothing is raised.
RDiv(x, y) ==
    IF IsFinite(x) /\ IsFinite(y) THEN Rat(x.n * y.d, x.d * y.n)
    ELSE IF IsFinite(x) /\ y.n # 0 THEN Zero
    ELSE IF IsFinite(y) /\ x.n # 0 THEN Rat(x.n * (IF y.n < 0 THEN -1 ELSE 1), 0)
    ELSE Rat(0, 0)

RAbs(x) == [n |-> Abs(x.n), d |-> x.d]

RECURSIVE SumSeq(_)
SumSeq(s) == IF s = <<>> THEN Zero ELSE RAdd(Head(s), SumSeq(Tail(s)))

\* The column col of a table, as a sequence.
Col(tab, col) == [i \in 1..Len(tab) |-> tab[i][col]]

(***************************************************************************)
(* Strings: str.strip, str.replace, str.split('.')[0], float().            *)
(***************************************************************************)
Whitespace == {" "}

RECURSIVE LStrip(_)
LStrip(s) == IF s # <<>> /\ Head(s) \in Whitespace THEN LStrip(Tail(s)) ELSE s

RECURSIVE RStrip(_)
RStrip(s) ==
    IF s # <<>> /\ s[Len(s)] \in Whitespace THEN RStrip(SubSeq(s, 1, Len(s) - 1)) ELSE s

Strip(s) == RStrip(LStrip(s))

\* s.split(sep)[0]: the part of s before the first sep, all of s without one.
RECURSIVE SplitHead(_, _)
SplitHead(s, sep) ==
    IF s = <<>> \/ Head(s) = sep THEN <<>>
    ELSE <<Head(s)>> \o SplitHead(Tail(s), sep)

\* s.replace(c, '')
RECURSIVE Remove(_, _)
Remove(s, c) ==
    IF s = <<>> THEN <<>>
    ELSE IF Head(s) = c THEN Remove(Tail(s), c)
    ELSE <<Head(s)>> \o Remove(Tail(s), c)

DigitVal == [c \in {"0", "1", "2", "3", "4", "5", "6", "7", "8", "9"} |->
               CASE c = "0" -> 0 [] c = "1" -> 1 [] c = "2" -> 2 [] c = "3" -> 3
                 [] c = "4" -> 4 [] c = "5" -> 5 [] c = "6" -> 6 [] c = "7" -> 7
                 [] c = "8" -> 8 [] c = "9" -> 9]

RECURSIVE DigitsValue(_)
DigitsValue(s) ==
    IF s = <<>> THEN 0 ELSE 10 * DigitsValue(SubSeq(s, 1, Len(s) - 1)) + DigitVal[s[Len(s)]]

RECURSIVE Pow10(_)
Pow10(k) == IF k = 0 THEN 1 ELSE 10 * Pow10(k - 1)

\* float() of a decimal literal: digits with at most one point.
ParseFloat(s) ==
    LET whole == SplitHead(s, ".")
        frac  == IF Len(whole) = Len(s) THEN <<>> ELSE SubSeq(s, Len(whole) + 2, Len(s))
    IN  Rat(DigitsValue(whole \o frac), Pow10(Len(frac)))

\* A table cell is a string, [str |-> <<chars>>], or a number, [num |-> rational].
IsStr(x) == "str" \in DOMAIN x

clean_val(x) ==
    IF IsStr(x) THEN ParseFloat(Strip(Remove(Remove(Remove(x.str, "$"), "%"), ",")))
    ELSE x.num

\* astype(str).str.strip().str.split('.').str[0]
NormalizeKey(raw) == SplitHead(Strip(raw), ".")

(***************************************************************************)
(* Orders: Python's order on the strings the tables use, needed because    *)
(* groupby and sorted() return their keys in ascending order.              *)
(***************************************************************************)
Years == {2024, 2025}
Channels == {"Retail"}
Categories == {"Drinks", "Snacks"}
Customers == {"X"}

StrRank == [s \in Channels \cup Categories \cup Customers |->
              CASE s = "Drinks" -> 1 [] s = "Retail" -> 2 [] s = "Snacks" -> 3 [] s = "X" -> 4]

KeyChars == {" ", ".", "0", "1", "5"}

CharRank == [c \in KeyChars |->
               CASE c = " " -> 1 [] c = "." -> 2 [] c = "0" -> 3 [] c = "1" -> 4 [] c = "5" -> 5]

RECURSIVE CharsLess(_, _)
CharsLess(a, b) ==
    IF b = <<>> THEN FALSE
    ELSE IF a = <<>> THEN TRUE
    ELSE IF Head(a) # Head(b) THEN CharRank[Head(a)] < CharRank[Head(b)]
    ELSE CharsLess(Tail(a), Tail(b))

\* Lexicographic order on the group key (Year, Channel, Category, Customer Name, EAN_Key).
GroupKeyLess(a, b) ==
    IF a[1] # b[1] THEN a[1] < b[1]
    ELSE IF a[2] # b[2] THEN StrRank[a[2]] < StrRank[b[2]]
    ELSE IF a[3] # b[3] THEN StrRank[a[3]] < StrRank[b[3]]
    ELSE IF a[4] # b[4] THEN StrRank[a[4]] < StrRank[b[4]]
    ELSE CharsLess(a[5], b[5])

RECURSIVE SortGroupKeys(_)
SortGroupKeys(S) ==
    IF S = {} THEN <<>>
    ELSE LET m == CHOOSE k \in S : \A j \in S \ {k} : GroupKeyLess(k, j)
         IN  <<m>> \o SortGroupKeys(S \ {m})

RECURSIVE SortStrings(_)
SortStrings(S) ==
    IF S = {} THEN <<>>
    ELSE LET m == CHOOSE k \in S : \A j \in S \ {k} : StrRank[k] < StrRank[j]
         IN  <<m>> \o SortStrings(S \ {m})

RECURSIVE SumInts(_)
SumInts(s) == IF s = <<>> THEN 0 ELSE Head(s) + SumInts(Tail(s))

RECURSIVE Flatten(_)
Flatten(ss) == IF ss = <<>> THEN <<>> ELSE Head(ss) \o Flatten(Tail(ss))

(***************************************************************************)
(* run_financial_engine: the body that runs on a cache miss.               *)
(***************************************************************************)
\* 2. Key normalization and numeric cleaning of the three tables.
LoadVolume(vol) ==
    [i \in 1..Len(vol) |->
        [Year |-> vol[i].Year, Channel |-> vol[i].Channel, Category |-> vol[i].Category,
         Customer_Name |-> vol[i].Customer_Name, Units |-> vol[i].Units,
         EAN_Key |-> NormalizeKey(vol[i].EAN_Code)]]

LoadPricing(pri) ==
    [i \in 1..Len(pri) |->
        [Year |-> pri[i].Year, Channel |-> pri[i].Channel,
         EAN_Key |-> NormalizeKey(pri[i].EAN),
         List_Price |-> clean_val(pri[i].List_Price),
         Std_Cost |-> clean_val(pri[i].Std_Cost),
         GTG |-> RDiv(clean_val(pri[i].GTG), FromInt(100))]]

LoadTradeSpend(tra) ==
    [i \in 1..Len(tra) |->
        [Year |-> tra[i].Year, Channel |-> tra[i].Channel, Category |-> tra[i].Category,
         Account_Code |-> tra[i].Account_Code, Account_Name |-> tra[i].Account_Name,
         Percentage |-> RDiv(clean_val(tra[i].Percentage), FromInt(100))]]

\* 3. groupby(Year, Channel, Category, Customer Name, EAN_Key).agg(Units: sum)
GroupKey(r) == <<r.Year, r.Channel, r.Category, r.Customer_Name, r.EAN_Key>>

AggregateVolume(df_vol) ==
    LET keys == SortGroupKeys({GroupKey(df_vol[i]) : i \in 1..Len(df_vol)})
    IN  [i \in 1..Len(keys) |->
            [Year |-> keys[i][1], Channel |-> keys[i][2], Category |-> keys[i][3],
             Customer_Name |-> keys[i][4], EAN_Key |-> keys[i][5],
             Units |-> SumInts(Col(SelectSeq(df_vol, LAMBDA r : GroupKey(r) = keys[i]),
                                   "Units"))]]

\* 4a. Left merge with the price table on (Year, Channel, EAN_Key), then fillna(0):
\*     one output row per matching price row, one zero-filled row without a match.
PriceMatches(row, df_pri) ==
    SelectSeq(df_pri, LAMBDA p : /\ p.Year = row.Year
                                 /\ p.Channel = row.Channel
                                 /\ p.EAN_Key = row.EAN_Key)

WithPrice(row, p) ==
    [Year |-> row.Year, Channel |-> row.Channel, Category |-> row.Category,
     Customer_Name |-> row.Customer_Name, EAN_Key |-> row.EAN_Key, Units |-> row.Units,
     List_Price |-> p.List_Price, Std_Cost |-> p.Std_Cost, GTG |-> p.GTG]

NoPrice == [List_Price |-> Zero, Std_Cost |-> Zero, GTG |-> Zero]

MergePrice(df_master, df_pri) ==
    Flatten([i \in 1..Len(df_master) |->
        LET m == PriceMatches(df_master[i], df_pri)
        IN  IF m = <<>> THEN <<WithPrice(df_master[i], NoPrice)>>
            ELSE [j \in 1..Len(m) |-> WithPrice(df_master[i], m[j])]])

\* 4b. The summed percentage of the trade-spend rules of one (Year, Channel,
\*     Category); 0 when there is none (left merge, then fillna(0)).
TradeRulesOf(row, df_tra) ==
    SelectSeq(df_tra, LAMBDA t : /\ t.Year = row.Year
                                 /\ t.Channel = row.Channel
                                 /\ t.Category = row.Category)

TS_Policy_Pct(row, df_tra) == SumSeq(Col(TradeRulesOf(row, df_tra), "Percentage"))

\* 5. Financial calculations of one merged row.
\* Mutant: the trade spend is not deducted.
Net_Total_Sales_NoTradeSpend(gts, tsv) == gts

Net_Total_Sales(gts, tsv) == RSub(gts, tsv)

Gross_Profit(nts, cogs) == RSub(nts, cogs)

Financials(row, pct) ==
    LET units == FromInt(row.Units)
        gs    == RMul(units, row.List_Price)
        oi    == RMul(gs, row.GTG)
        gts   == RSub(gs, oi)
        tsv   == RMul(gs, pct)
        nts   == Net_Total_Sales(gts, tsv)
        cogs  == RMul(units, row.Std_Cost)
    IN  [Year |-> row.Year, Channel |-> row.Channel, Category |-> row.Category,
         Customer_Name |-> row.Customer_Name, EAN_Key |-> row.EAN_Key, Units |-> row.Units,
         List_Price |-> row.List_Price, Std_Cost |-> row.Std_Cost, GTG |-> row.GTG,
         TS_Policy_Pct |-> pct, Gross_Sales |-> gs, Off_Invoice |-> oi, GTS |-> gts,
         Trade_Spend_Value |-> tsv, Net_Total_Sales |-> nts, COGS |-> cogs,
         Gross_Profit |-> Gross_Profit(nts, cogs)]

run_financial_engine(vol, pri, tra) ==
    LET df_vol    == LoadVolume(vol)
        df_pri    == LoadPricing(pri)
        df_tra    == LoadTradeSpend(tra)
        df_master == MergePrice(AggregateVolume(df_vol), df_pri)
    IN  [i \in 1..Len(df_master) |->
            Financials(df_master[i], TS_Policy_Pct(df_master[i], df_tra))]

(***************************************************************************)
(* One run of the script after the engine call: filters and tabs.          *)
(***************************************************************************)
\* df_all[(Year == sel_year) & Channel.isin(sel_chan) & Category.isin(sel_cat)]
ApplyFilters(all, year, chans, cats) ==
    SelectSeq(all, LAMBDA r : /\ r.Year = year
                              /\ r.Channel \in chans
                              /\ r.Category \in cats)

OfCategory(df, cat) == SelectSeq(df, LAMBDA r : r.Category = cat)

UnitsSum(df) == SumInts(Col(df, "Units"))

NtsSum(df) == SumSeq(Col(df, "Net_Total_Sales"))

\* tab_pl: margin = (gp / nts * 100) if nts != 0 else 0
GPMargin(df) ==
    LET nts == NtsSum(df)
        gp  == SumSeq(Col(df, "Gross_Profit"))
    IN  IF nts # Zero THEN RMul(RDiv(gp, nts), FromInt(100)) ELSE Zero

\* tab_weights: per category Units and NTS, and their shares of the column totals.
MixWeights(df) ==
    LET cats   == SortStrings({df[i].Category : i \in 1..Len(df)})
        units  == [i \in 1..Len(cats) |-> UnitsSum(OfCategory(df, cats[i]))]
        ntsCol == [i \in 1..Len(cats) |-> NtsSum(OfCategory(df, cats[i]))]
    IN  [i \in 1..Len(cats) |->
            [Category |-> cats[i], Units |-> units[i], Net_Total_Sales |-> ntsCol[i],
             Pct_Volume |-> RDiv(FromInt(units[i]), FromInt(SumInts(units))),
             Pct_NTS |-> RDiv(ntsCol[i], SumSeq(ntsCol))]]

\* tab_pvm: the locals of one iteration of the loop over the categories.
PvmLocals(cat, prev, cur) ==
    LET d1     == OfCategory(prev, cat)
        d2     == OfCategory(cur, cat)
        tot_v1 == UnitsSum(prev)
        tot_v2 == UnitsSum(cur)
        v1     == UnitsSum(d1)
        v2     == UnitsSum(d2)
    IN  [Category |-> cat, v1 |-> v1, v2 |-> v2, tot_v1 |-> tot_v1, tot_v2 |-> tot_v2,
         p1 |-> IF v1 > 0 THEN RDiv(NtsSum(d1), FromInt(v1)) ELSE Zero,
         p2 |-> IF v2 > 0 THEN RDiv(NtsSum(d2), FromInt(v2)) ELSE Zero,
         mix1 |-> IF tot_v1 > 0 THEN RDiv(FromInt(v1), FromInt(tot_v1)) ELSE Zero,
         mix2 |-> IF tot_v2 > 0 THEN RDiv(FromInt(v2), FromInt(tot_v2)) ELSE Zero]

Price_Effect(l) == RMul(FromInt(l.v2), RSub(l.p2, l.p1))

Volume_Effect(l) == RMul(RMul(FromInt(l.tot_v2 - l.tot_v1), l.mix1), l.p1)

\* Mutant: the mix effect anchored on the current price.
Mix_Effect_CurrentPrice(l) == RMul(RMul(FromInt(l.tot_v2), RSub(l.mix2, l.mix1)), l.p2)

Mix_Effect(l) == RMul(RMul(FromInt(l.tot_v2), RSub(l.mix2, l.mix1)), l.p1)

PvmRow(l) ==
    [Category |-> l.Category, Price_Effect |-> Price_Effect(l),
     Volume_Effect |-> Volume_Effect(l), Mix_Effect |-> Mix_Effect(l),
     Total_Delta |-> RSub(RMul(FromInt(l.v2), l.p2), RMul(FromInt(l.v1), l.p1))]

PrevYear(all, year) == SelectSeq(all, LAMBDA r : r.Year = year - 1)

PvmLocalsList(all, cur, year) ==
    LET prev == PrevYear(all, year)
        cats == SortStrings({all[i].Category : i \in 1..Len(all)})
    IN  IF prev = <<>> THEN <<>>
        ELSE [i \in 1..Len(cats) |-> PvmLocals(cats[i], prev, cur)]

\* The y values of the waterfall chart.
Waterfall(all, cur, year, pvm) ==
    IF PrevYear(all, year) = <<>> THEN <<>>
    ELSE <<NtsSum(PrevYear(all, year)), SumSeq(Col(pvm, "Price_Effect")),
           SumSeq(Col(pvm, "Volume_Effect")), SumSeq(Col(pvm, "Mix_Effect")), NtsSum(cur)>>

\* tab_download: the ledger lines of one row, with the trade-spend rules as
\* re-read from the trade-spend file.
Line(row, code, account, value) ==
    [Year |-> row.Year, Channel |-> row.Channel, Customer |-> row.Customer_Name,
     Category |-> row.Category, EAN |-> row.EAN_Key,
     Account_code |-> code, Account |-> account, Value |-> RAbs(value)]

TradeLines(row, rules) ==
    Flatten([j \in 1..Len(rules) |->
        LET trade_value == RMul(row.Gross_Sales, rules[j].Percentage)
        IN  IF trade_value # Zero
            THEN <<Line(row, rules[j].Account_Code, rules[j].Account_Name, trade_value)>>
            ELSE <<>>])

\* Mutant: the Gross Sales line is skipped when zero, like every other line.
RowLines_SkipZeroGross(row, df_tra_rules) ==
    (IF row.Gross_Sales # Zero
     THEN <<Line(row, "GS-001", "Gross Sales", row.Gross_Sales)>> ELSE <<>>)
    \o (IF row.Off_Invoice # Zero
        THEN <<Line(row, "OI-001", "Off-Invoice", row.Off_Invoice)>> ELSE <<>>)
    \o TradeLines(row, TradeRulesOf(row, df_tra_rules))
    \o (IF row.COGS # Zero THEN <<Line(row, "CS-001", "COGS", row.COGS)>> ELSE <<>>)

RowLines(row, df_tra_rules) ==
    <<Line(row, "GS-001", "Gross Sales", row.Gross_Sales)>>
    \o (IF row.Off_Invoice # Zero
        THEN <<Line(row, "OI-001", "Off-Invoice", row.Off_Invoice)>> ELSE <<>>)
    \o TradeLines(row, TradeRulesOf(row, df_tra_rules))
    \o (IF row.COGS # Zero THEN <<Line(row, "CS-001", "COGS", row.COGS)>> ELSE <<>>)

RawData(df, tra) ==
    LET df_tra_rules == LoadTradeSpend(tra)
    IN  Flatten([i \in 1..Len(df) |-> RowLines(df[i], df_tra_rules)])

(***************************************************************************)
(* Actions.                                                                *)
(***************************************************************************)
\* @st.cache_data on a function without arguments: the stored entry, if any,
\* is returned whatever the files hold now.
CachedEngine == IF cache = <<>> THEN run_financial_engine(volTab, priTab, traTab) ELSE cache[1]

\* A run of the script over an engine result with rows.  The year and the
\* categories are the user's choice among those of df_all; the channel
\* multiselect is left at its default, every channel of df_all (emptying it
\* empties df_f, as an empty category selection does).
Rerun ==
    /\ \E all \in {CachedEngine} :
       /\ all # <<>>
       /\ \E year \in {all[i].Year : i \in 1..Len(all)} :
          \E chans \in {{all[i].Channel : i \in 1..Len(all)}} :
          \E cats \in SUBSET {all[i].Category : i \in 1..Len(all)} :
          \E cur \in {ApplyFilters(all, year, chans, cats)} :
          \E locals \in {PvmLocalsList(all, cur, year)} :
          \E pvm \in {[i \in 1..Len(locals) |-> PvmRow(locals[i])]} :
              /\ cache' = <<all>>
              /\ df_all' = all
              /\ sel_year' = year
              /\ sel_chan' = chans
              /\ sel_cat' = cats
              /\ df_f' = cur
              /\ margin' = GPMargin(cur)
              /\ weights' = MixWeights(cur)
              /\ pvm_locals' = locals
              /\ df_pvm' = pvm
              /\ wf_y' = Waterfall(all, cur, year, pvm)
              /\ raw_data_list' = RawData(cur, traTab)
    /\ UNCHANGED <<volTab, priTab, traTab, keyVars>>

\* A run over an engine result without rows: the year selectbox has no option
\* and returns None, and the script stops at prev_yr = sel_year - 1.
RerunNoData ==
    /\ CachedEngine = <<>>
    /\ cache' = <<CachedEngine>>
    /\ df_all' = <<>>
    /\ sel_year' = 0
    /\ sel_chan' = {}
    /\ sel_cat' = {}
    /\ df_f' = <<>>
    /\ margin' = Zero
    /\ weights' = <<>>
    /\ pvm_locals' = <<>>
    /\ df_pvm' = <<>>
    /\ wf_y' = <<>>
    /\ raw_data_list' = <<>>
    /\ UNCHANGED <<volTab, priTab, traTab, keyVars>>

(***************************************************************************)
(* The input files: the rows the three CSV files may hold.                 *)
(***************************************************************************)
SeqsUpTo(S, n) == UNION {[1..k -> S] : k \in 0..n}

UnitValues == {-1, 0, 2}

VolKeys == {<<"1", ".", "0">>}

PriKeys == {<<"1">>}

VolRows ==
    [Year : Years, Channel : Channels, Category : Categories, Customer_Name : Customers,
     EAN_Code : VolKeys, Units : UnitValues]

PriRows ==
    [Year : Years, Channel : Channels, EAN : PriKeys,
     List_Price : {[str |-> <<"$", "2">>]},
     Std_Cost : {[num |-> FromInt(1)]},
     GTG : {[str |-> <<"5", "0", "%">>]}]

\* Trade-spend rules are on file for the later year only.
TraYears == {2025}

TraRows ==
    [Year : TraYears, Channel : Channels, Category : Categories,
     Account_Code : {"TS-001"}, Account_Name : {"Agreement"},
     Percentage : {[str |-> <<"1", "0", "%">>]}]

\* A row is appended to one of the files while the application is up.
AppendVolume ==
    /\ Len(volTab) < MaxVolRows
    /\ \E r \in VolRows : volTab' = Append(volTab, r)
    /\ UNCHANGED <<priTab, traTab, runVars, keyVars>>

AppendPrice ==
    /\ Len(priTab) < MaxPriRows
    /\ \E r \in PriRows : priTab' = Append(priTab, r)
    /\ UNCHANGED <<volTab, traTab, runVars, keyVars>>

AppendTrade ==
    /\ Len(traTab) < MaxTraRows
    /\ \E r \in TraRows : traTab' = Append(traTab, r)
    /\ UNCHANGED <<volTab, priTab, runVars, keyVars>>

\* The key normalization of the volume table and of the price table, applied
\* to one raw key.
NormalizeVolumeKey ==
    /\ EAN_Key = <<>>
    /\ EAN_Key' = Col(LoadVolume(<<[Year |-> 2024, Channel |-> "Retail",
                                    Category |-> "Snacks", Customer_Name |-> "X",
                                    Units |-> 0, EAN_Code |-> rawKey]>>), "EAN_Key")
    /\ UNCHANGED <<rawKey, tableVars, runVars>>

NormalizePriceKey ==
    /\ EAN_Key = <<>>
    /\ EAN_Key' = Col(LoadPricing(<<[Year |-> 2024, Channel |-> "Retail", EAN |-> rawKey,
                                     List_Price |-> [num |-> Zero],
                                     Std_Cost |-> [num |-> Zero],
                                     GTG |-> [num |-> Zero]]>>), "EAN_Key")
    /\ UNCHANGED <<rawKey, tableVars, runVars>>

(***************************************************************************)
(* Specifications.                                                         *)
(***************************************************************************)
NoRun ==
    /\ cache = <<>>
    /\ df_all = <<>>
    /\ sel_year = 0
    /\ sel_chan = {}
    /\ sel_cat = {}
    /\ df_f = <<>>
    /\ margin = Zero
    /\ weights = <<>>
    /\ pvm_locals = <<>>
    /\ df_pvm = <<>>
    /\ wf_y = <<>>
    /\ raw_data_list = <<>>

NoKey == rawKey = <<>> /\ EAN_Key = <<>>

\* The application starts over header-only files that then grow.
Init ==
    /\ volTab = <<>>
    /\ priTab = <<>>
    /\ traTab = <<>>
    /\ NoRun
    /\ NoKey

Next == AppendVolume \/ AppendPrice \/ AppendTrade \/ Rerun \/ RerunNoData

Spec == Init /\ [][Next]_vars

\* The application is started over given files and the script runs once.
InitTables ==
    /\ priTab \in SeqsUpTo(PriRows, BatchPriRows)
    /\ traTab \in SeqsUpTo(TraRows, BatchTraRows)
    /\ volTab \in SeqsUpTo(VolRows, BatchVolRows)
    /\ Len(volTab) + Len(priTab) + Len(traTab) <= BatchTotalRows
    /\ NoRun
    /\ NoKey

\* The first run of the script after start-up: the cache holds nothing yet.
FirstRun == cache = <<>> /\ Rerun

FirstRunNoData == cache = <<>> /\ RerunNoData

NextTables == FirstRun \/ FirstRunNoData

SpecTables == InitTables /\ [][NextTables]_vars

\* Key normalization alone, over every raw key up to MaxKeyLen characters.
InitKey ==
    /\ volTab = <<>>
    /\ priTab = <<>>
    /\ traTab = <<>>
    /\ NoRun
    /\ rawKey \in SeqsUpTo(KeyChars, MaxKeyLen)
    /\ EAN_Key = <<>>

NextKey == NormalizeVolumeKey \/ NormalizePriceKey

SpecKey == InitKey /\ [][NextKey]_vars

(***************************************************************************)
(* Helpers of the properties.  They read the state and the input tables    *)
(* directly and use none of the engine's operators.                        *)
(***************************************************************************)
Ran == cache # <<>>

\* The percentage of rule i of the trade-spend file, as a fraction.
RulePct(i) == RDiv(clean_val(traTab[i].Percentage), FromInt(100))

\* The rules of the trade-spend file whose (Year, Channel, Category) is the row's.
RuleIndices(r) ==
    {i \in 1..Len(traTab) : /\ traTab[i].Year = r.Year
                            /\ traTab[i].Channel = r.Channel
                            /\ traTab[i].Category = r.Category}

RECURSIVE SumOver(_, _)
SumOver(f, S) ==
    IF S = {} THEN Zero
    ELSE LET x == CHOOSE y \in S : TRUE IN RAdd(f[x], SumOver(f, S \ {x}))

SummedPct(r) == SumOver([i \in 1..Len(traTab) |-> RulePct(i)], RuleIndices(r))

\* The ascending sequence of the elements of a set of integers.
RECURSIVE Ascending(_)
Ascending(S) ==
    IF S = {} THEN <<>>
    ELSE LET m == CHOOSE x \in S : \A y \in S : x <= y IN <<m>> \o Ascending(S \ {m})

\* The ledger cut into blocks, each starting at a Gross Sales line.
FixedCodes == {"GS-001", "OI-001", "CS-001"}

BlockStarts == Ascending({i \in 1..Len(raw_data_list) : raw_data_list[i].Account_code = "GS-001"})

Block(starts, k) ==
    SubSeq(raw_data_list, starts[k],
           IF k < Len(starts) THEN starts[k + 1] - 1 ELSE Len(raw_data_list))

WithCode(lines, code) == SelectSeq(lines, LAMBDA l : l.Account_code = code)

TradeLinesOf(lines) == SelectSeq(lines, LAMBDA l : l.Account_code \notin FixedCodes)

AccountRank(l) ==
    CASE l.Account_code = "GS-001" -> 1
      [] l.Account_code = "OI-001" -> 2
      [] l.Account_code = "CS-001" -> 4
      [] OTHER -> 3

\* The rules that contribute a non-zero amount to row r, in file order.
ContributingRules(r) ==
    Ascending({i \in RuleIndices(r) : RMul(r.Gross_Sales, RulePct(i)) # Zero})

(***************************************************************************)
(* C1.  Conservation: for every MasterRow the engine produces,             *)
(* GrossSales - OffInvoice - TradeSpendValue - COGS = GrossProfit, where   *)
(* TradeSpendValue is GrossSales times the summed percentage of the        *)
(* trade-spend rules of the row's (Period, Channel, Category).             *)
(***************************************************************************)
C1_Conservation ==
    \A i \in 1..Len(df_all) :
        LET r == df_all[i]
        IN  /\ RSub(RSub(RSub(r.Gross_Sales, r.Off_Invoice), r.Trade_Spend_Value), r.COGS)
                 = r.Gross_Profit
            /\ r.Trade_Spend_Value = RMul(r.Gross_Sales, SummedPct(r))

\* A row with two trade-spend rules and every term of the waterfall non-zero.
C1_Witness ==
    \E i \in 1..Len(df_all) :
        /\ Cardinality(RuleIndices(df_all[i])) = 2
        /\ df_all[i].Off_Invoice # Zero
        /\ df_all[i].Trade_Spend_Value # Zero
        /\ df_all[i].COGS # Zero
        /\ df_all[i].Gross_Profit # Zero

(***************************************************************************)
(* C2.  PVM additivity: for every row of the PVM table, for any previous   *)
(* and current row-sets, PriceEffect + VolumeEffect + MixEffect equals     *)
(* TotalDelta.                                                             *)
(***************************************************************************)
C2_PvmAdditivity ==
    \A i \in 1..Len(df_pvm) :
        RAdd(RAdd(df_pvm[i].Price_Effect, df_pvm[i].Volume_Effect), df_pvm[i].Mix_Effect)
            = df_pvm[i].Total_Delta

(***************************************************************************)
(* C3.  Key normalization returns the raw key trimmed of surrounding       *)
(* whitespace and then stripped of one trailing ".0", and nothing else, in *)
(* the volume table and in the price table.                                *)
(***************************************************************************)
TrimDropDotZero(raw) ==
    LET t == Strip(raw)
    IN  IF Len(t) >= 2 /\ t[Len(t) - 1] = "." /\ t[Len(t)] = "0"
        THEN SubSeq(t, 1, Len(t) - 2)
        ELSE t

C3_KeyAsSpecified == EAN_Key # <<>> => EAN_Key[1] = TrimDropDotZero(rawKey)

(***************************************************************************)
(* C4.  Key normalization is idempotent: normalizing a normalized key      *)
(* returns it unchanged; and "123.0" and "123 " both normalize to "123".   *)
(***************************************************************************)
C4_KeyIdempotent ==
    /\ EAN_Key # <<>> => NormalizeKey(EAN_Key[1]) = EAN_Key[1]
    /\ NormalizeKey(<<"1", "2", "3", ".", "0">>) = <<"1", "2", "3">>
    /\ NormalizeKey(<<"1", "2", "3", " ">>) = <<"1", "2", "3">>

(***************************************************************************)
(* C5.  The MasterRow table has exactly one row per distinct (Period,      *)
(* Channel, Category, Customer, ProductKey) of the volume table, and its   *)
(* Units add up to the Units of the volume table, whatever the price and   *)
(* trade-spend tables hold.                                                *)
(***************************************************************************)
VolumeKeys ==
    {<<volTab[i].Year, volTab[i].Channel, volTab[i].Category, volTab[i].Customer_Name,
       TrimDropDotZero(volTab[i].EAN_Code)>> : i \in 1..Len(volTab)}

C5_OneRowPerKey ==
    Ran => /\ Len(df_all) = Cardinality(VolumeKeys)
           /\ SumInts([i \in 1..Len(df_all) |-> df_all[i].Units])
                = SumInts([i \in 1..Len(volTab) |-> volTab[i].Units])

(***************************************************************************)
(* C6.  Every invocation of the engine returns the MasterRow table         *)
(* computed from the input tables as they are at that invocation.          *)
(***************************************************************************)
C6_EngineIsPure ==
    [][(Rerun \/ RerunNoData) => df_all' = run_financial_engine(volTab, priTab, traTab)]_vars

(***************************************************************************)
(* C7.  Per MasterRow the ledger holds, in this order: one Gross Sales     *)
(* line (also when GrossSales is zero), an Off-Invoice line, one line per  *)
(* trade-spend rule of the row's (Period, Channel, Category), a COGS line; *)
(* every line but Gross Sales is there if and only if its contribution is  *)
(* non-zero, and every Value is the absolute value of the contribution.    *)
(***************************************************************************)
C7_BlockOk(lines, k) ==
    LET r     == df_f[k]
        oi    == WithCode(lines, "OI-001")
        cogs  == WithCode(lines, "CS-001")
        trade == TradeLinesOf(lines)
        rules == ContributingRules(r)
    IN  /\ \A j \in 1..Len(lines) :
             /\ lines[j].Year = r.Year
             /\ lines[j].Channel = r.Channel
             /\ lines[j].Customer = r.Customer_Name
             /\ lines[j].Category = r.Category
             /\ lines[j].EAN = r.EAN_Key
             /\ lines[j].Value.n >= 0
             /\ j > 1 => AccountRank(lines[j - 1]) <= AccountRank(lines[j])
        /\ lines[1].Account = "Gross Sales"
        /\ lines[1].Value = RAbs(r.Gross_Sales)
        /\ Len(oi) = (IF r.Off_Invoice # Zero THEN 1 ELSE 0)
        /\ \A j \in 1..Len(oi) : oi[j].Account = "Off-Invoice" /\ oi[j].Value = RAbs(r.Off_Invoice)
        /\ Len(cogs) = (IF r.COGS # Zero THEN 1 ELSE 0)
        /\ \A j \in 1..Len(cogs) : cogs[j].Account = "COGS" /\ cogs[j].Value = RAbs(r.COGS)
        /\ Len(trade) = Len(rules)
        /\ \A j \in 1..Len(trade) :
             /\ trade[j].Account_code = traTab[rules[j]].Account_Code
             /\ trade[j].Account = traTab[rules[j]].Account_Name
             /\ trade[j].Value = RAbs(RMul(r.Gross_Sales, RulePct(rules[j])))

C7_LedgerLines ==
    Ran => LET starts == BlockStarts
           IN  /\ Len(starts) = Len(df_f)
               /\ raw_data_list # <<>> => starts[1] = 1
               /\ \A k \in 1..Len(df_f) : C7_BlockOk(Block(starts, k), k)

\* A ledger with a lone zero Gross Sales line for one row and, for another
\* row with negative Units, all four kinds of line.
C7_Witness ==
    /\ Ran
    /\ \E k \in 1..Len(BlockStarts) :
         Len(Block(BlockStarts, k)) = 1 /\ Block(BlockStarts, k)[1].Value = Zero
    /\ \E k \in 1..Len(BlockStarts) :
         /\ k <= Len(df_f)
         /\ df_f[k].Units < 0
         /\ Len(WithCode(Block(BlockStarts, k), "OI-001")) = 1
         /\ Len(TradeLinesOf(Block(BlockStarts, k))) = 1
         /\ Len(WithCode(Block(BlockStarts, k), "CS-001")) = 1

(***************************************************************************)
(* C8.  Every ratio evaluates to 0 when its denominator is zero: the GP    *)
(* margin, the per-unit prices p1 and p2, the mix shares mix1 and mix2,    *)
(* and the participation shares % Volume and % NTS.                        *)
(***************************************************************************)
C8_RatiosGuarded ==
    /\ Ran /\ SumOver([i \in 1..Len(df_f) |-> df_f[i].Net_Total_Sales], 1..Len(df_f)) = Zero
         => margin = Zero
    /\ \A i \in 1..Len(pvm_locals) :
         /\ pvm_locals[i].v1 = 0 => pvm_locals[i].p1 = Zero
         /\ pvm_locals[i].v2 = 0 => pvm_locals[i].p2 = Zero
         /\ pvm_locals[i].tot_v1 = 0 => pvm_locals[i].mix1 = Zero
         /\ pvm_locals[i].tot_v2 = 0 => pvm_locals[i].mix2 = Zero
    /\ \A i \in 1..Len(weights) :
         /\ SumInts([j \in 1..Len(weights) |-> weights[j].Units]) = 0
              => weights[i].Pct_Volume = Zero
         /\ SumOver([j \in 1..Len(weights) |-> weights[j].Net_Total_Sales], 1..Len(weights)) = Zero
              => weights[i].Pct_NTS = Zero

(***************************************************************************)
(* C9.  Ledger totals equal MasterRow totals: for every row of the ledger  *)
(* run, the Values of its trade-spend lines add up to the magnitude of the *)
(* row's TradeSpendValue, after any sequence of engine runs and ledger     *)
(* builds.                                                                 *)
(***************************************************************************)
C9_LedgerMatchesMaster ==
    Ran /\ Len(BlockStarts) = Len(df_f) =>
        \A k \in 1..Len(df_f) :
            LET trade == TradeLinesOf(Block(BlockStarts, k))
            IN  SumOver([j \in 1..Len(trade) |-> trade[j].Value], 1..Len(trade))
                    = RAbs(df_f[k].Trade_Spend_Value)

(***************************************************************************)
(* C10.  The bridge reconciles the two periods: when the bridge is         *)
(* computed and all Units are non-negative, the TotalDelta summed over the *)
(* categories, and the three effects summed over the categories, equal     *)
(* current NetTotalSales minus previous-period NetTotalSales, and the      *)
(* waterfall from previous NetTotalSales through the three summed effects  *)
(* ends at current NetTotalSales.                                          *)
(***************************************************************************)
PrevIndices == {i \in 1..Len(df_all) : df_all[i].Year = sel_year - 1}

NtsOf(df, S) == SumOver([i \in 1..Len(df) |-> df[i].Net_Total_Sales], S)

PvmSum(col) == SumOver([i \in 1..Len(df_pvm) |-> df_pvm[i][col]], 1..Len(df_pvm))

NtsChange == RSub(NtsOf(df_f, 1..Len(df_f)), NtsOf(df_all, PrevIndices))

BridgeComputed == Ran /\ PrevIndices # {}

C10_BridgeReconciles ==
    BridgeComputed /\ (\A i \in 1..Len(df_all) : df_all[i].Units >= 0) =>
        /\ Len(df_pvm) > 0
        /\ PvmSum("Total_Delta") = NtsChange
        /\ RAdd(RAdd(PvmSum("Price_Effect"), PvmSum("Volume_Effect")), PvmSum("Mix_Effect"))
             = NtsChange
        /\ Len(wf_y) = 5
        /\ wf_y[1] = NtsOf(df_all, PrevIndices)
        /\ RAdd(RAdd(RAdd(wf_y[1], wf_y[2]), wf_y[3]), wf_y[4]) = wf_y[5]
        /\ wf_y[5] = NtsOf(df_f, 1..Len(df_f))

\* A bridge over non-negative Units in which a category sold in the previous
\* period is filtered out of the current one and another one is not.
C10_Witness ==
    /\ BridgeComputed
    /\ \A i \in 1..Len(df_all) : df_all[i].Units >= 0
    /\ \E i \in 1..Len(pvm_locals) :
         pvm_locals[i].v1 > 0 /\ pvm_locals[i].v2 = 0 /\ pvm_locals[i].p1 # Zero
    /\ \E i \in 1..Len(df_pvm) : df_pvm[i].Price_Effect # Zero
    /\ \E i \in 1..Len(df_pvm) : df_pvm[i].Mix_Effect # Zero

====
